---- MODULE Spec2Model ----
(***************************************************************************)
(* State-machine model of the algorithm exercises and the class            *)
(* demonstrations of the BSCS notes repository.  Every program of the      *)
(* repository is a separate compilation unit, so every program has its own *)
(* variable (a record whose fields carry the names of the program's        *)
(* variables) and its own specification; a specification leaves the        *)
(* variables of the other programs at their idle value.                    *)
(***************************************************************************)
EXTENDS Integers, Sequences, FiniteSets, TLC

VARIABLES div, mrg, sub, sym, dry, bank, chk, enc, ctr, frd, fl

vars == <<div, mrg, sub, sym, dry, bank, chk, enc, ctr, frd, fl>>

Idle == [pc |-> "idle"]

(***************************************************************************)
(* Bounds of the model.                                                    *)
(***************************************************************************)
MaxN == 130
MaxLen == 3
MaxVal == 2

(* C++ containers are indexed from 0, TLA+ sequences from 1. *)
At(seq, k) == seq[k + 1]

Put(seq, k, v) == [seq EXCEPT ![k + 1] = v]

SeqsUpTo(S, len) == UNION {[1..k -> S] : k \in 0..len}

Zeros(k) == [x \in 1..k |-> 0]

IsSorted(seq) == \A a, b \in 1..Len(seq) : a <= b => seq[a] <= seq[b]

RECURSIVE SumSeq(_)
SumSeq(seq) == IF seq = <<>> THEN 0 ELSE Head(seq) + SumSeq(Tail(seq))

RECURSIVE ProdSeq(_)
ProdSeq(seq) == IF seq = <<>> THEN 1 ELSE Head(seq) * ProdSeq(Tail(seq))

(* The decimal digits of a positive integer, least significant first. *)
RECURSIVE Digits(_)
Digits(k) == IF k = 0 THEN <<>> ELSE <<k % 10>> \o Digits(k \div 10)

(* How often v occurs in seq. *)
Count(seq, v) == Cardinality({k \in 1..Len(seq) : seq[k] = v})

SameMultiset(a, b) ==
    /\ Len(a) = Len(b)
    /\ \A k \in 1..Len(a) : Count(a, a[k]) = Count(b, a[k])

(***************************************************************************)
(* 12-CheckDivBySumndProduct.cpp: Solution::checkDivisibility(n).          *)
(***************************************************************************)
DivInit ==
    /\ \E n \in 1..MaxN :
          div = [pc |-> "loop", n |-> n, digitSum |-> 0, digitProduct |-> 1,
                 temp |-> n, ret |-> FALSE]
    /\ mrg = Idle /\ sub = Idle /\ sym = Idle /\ dry = Idle /\ bank = Idle
    /\ chk = Idle /\ enc = Idle /\ ctr = Idle /\ frd = Idle /\ fl = Idle

(* One iteration of while (temp != 0). *)
DivLoop ==
    /\ div.pc = "loop"
    /\ div.temp # 0
    /\ LET remain == div.temp % 10
       IN  div' = [div EXCEPT !.digitSum = @ + remain,
                              !.digitProduct = @ * remain,
                              !.temp = @ \div 10]
    /\ UNCHANGED <<mrg, sub, sym, dry, bank, chk, enc, ctr, frd, fl>>

(* The loop has ended: res = digitSum + digitProduct and the return. *)
DivReturn ==
    /\ div.pc = "loop"
    /\ div.temp = 0
    /\ LET res == div.digitSum + div.digitProduct
       IN  div' = [div EXCEPT !.pc = "done", !.ret = ~(div.n % res # 0)]
    /\ UNCHANGED <<mrg, sub, sym, dry, bank, chk, enc, ctr, frd, fl>>

DivNext == DivLoop \/ DivReturn

SpecDiv == DivInit /\ [][DivNext]_vars

(* C1: for every positive n, checkDivisibility(n) returns true exactly when
   n is divisible by the sum of its decimal digits or by the product of its
   decimal digits (n = 12, digit sum 3, digit product 2, returns true). *)
DivisibleBy(n, d) == d # 0 /\ n % d = 0

C1_SumOrProduct ==
    div.pc = "done" =>
        (div.ret <=> \/ DivisibleBy(div.n, SumSeq(Digits(div.n)))
                     \/ DivisibleBy(div.n, ProdSeq(Digits(div.n))))

(* The documented example itself: checkDivisibility(12) is true. *)
C1_Example12 == (div.pc = "done" /\ div.n = 12) => div.ret

(***************************************************************************)
(* 11-Merge-SortedARR.cpp: Solution::merge(nums1, m, nums2, n).            *)
(* nums1 has length m + n, its last n elements are 0; in1 and in2 keep the *)
(* arguments as they were at the call.                                     *)
(***************************************************************************)
MergeInit ==
    /\ \E a \in SeqsUpTo(0..MaxVal, MaxLen), b \in SeqsUpTo(0..MaxVal, MaxLen) :
          mrg = [pc |-> "loop", nums1 |-> a \o Zeros(Len(b)), m |-> Len(a),
                 nums2 |-> b, n |-> Len(b),
                 i |-> Len(a) - 1, j |-> Len(b) - 1, endSize |-> Len(a) + Len(b) - 1,
                 in1 |-> a, in2 |-> b]
    /\ div = Idle /\ sub = Idle /\ sym = Idle /\ dry = Idle /\ bank = Idle
    /\ chk = Idle /\ enc = Idle /\ ctr = Idle /\ frd = Idle /\ fl = Idle

(* while (j >= 0); the variant stops one element of nums2 early. *)
MergeLoopCondStrict(s) == s.j > 0

MergeLoopCond(s) == s.j >= 0

(* if (i >= 0 && nums1[i] > nums2[j]); the variant compares the other way. *)
MergeTakeLeftLess(s) == s.i >= 0 /\ At(s.nums1, s.i) < At(s.nums2, s.j)

MergeTakeLeft(s) == s.i >= 0 /\ At(s.nums1, s.i) > At(s.nums2, s.j)

(* The body of the loop: one element is written at endSize. *)
MergeBody(s) ==
    IF MergeTakeLeft(s)
    THEN [s EXCEPT !.nums1 = Put(s.nums1, s.endSize, At(s.nums1, s.i)),
                   !.i = @ - 1,
                   !.endSize = @ - 1]
    ELSE [s EXCEPT !.nums1 = Put(s.nums1, s.endSize, At(s.nums2, s.j)),
                   !.j = @ - 1,
                   !.endSize = @ - 1]

MergeStep ==
    /\ mrg.pc = "loop"
    /\ MergeLoopCond(mrg)
    /\ mrg' = MergeBody(mrg)
    /\ UNCHANGED <<div, sub, sym, dry, bank, chk, enc, ctr, frd, fl>>

MergeReturn ==
    /\ mrg.pc = "loop"
    /\ ~MergeLoopCond(mrg)
    /\ mrg' = [mrg EXCEPT !.pc = "done"]
    /\ UNCHANGED <<div, sub, sym, dry, bank, chk, enc, ctr, frd, fl>>

MergeNext == MergeStep \/ MergeReturn

SpecMerge == MergeInit /\ [][MergeNext]_vars

(* C2: if the first m elements of nums1 and the n elements of nums2 are in
   non-decreasing order and nums1 has length m + n, then after merge returns
   all m + n elements of nums1 are in non-decreasing order. *)
C2_MergeSorted ==
    (mrg.pc = "done" /\ IsSorted(mrg.in1) /\ IsSorted(mrg.in2)
        /\ Len(mrg.nums1) = mrg.m + mrg.n)
    => IsSorted(mrg.nums1)

(* A merge of two sorted arrays that had to interleave: each array holds an
   element smaller than an element of the other. *)
C2_Witness ==
    /\ mrg.pc = "done"
    /\ IsSorted(mrg.in1) /\ IsSorted(mrg.in2)
    /\ mrg.m >= 2 /\ mrg.n >= 2
    /\ mrg.in1[1] < mrg.in2[1] /\ mrg.in2[1] < mrg.in1[mrg.m]
    /\ IsSorted(mrg.nums1)

(* C3: after merge returns nums1 holds exactly the multiset of the original
   first m elements of nums1 together with the n elements of nums2, and
   nums2 is unchanged, for every m >= 0 and n >= 0. *)
C3_MergeMultiset ==
    mrg.pc = "done" =>
        /\ SameMultiset(mrg.nums1, mrg.in1 \o mrg.in2)
        /\ mrg.nums2 = mrg.in2

(* Merges with m = 0 and with n = 0 return, and so does one that moved
   elements of both arrays. *)
C3_Witness ==
    /\ mrg.pc = "done"
    /\ mrg.m >= 1 /\ mrg.n >= 1
    /\ mrg.in1[mrg.m] > mrg.in2[1]
    /\ mrg.nums1 # mrg.in1 \o mrg.in2
    /\ SameMultiset(mrg.nums1, mrg.in1 \o mrg.in2)

C3_WitnessEmptyLeft == mrg.pc = "done" /\ mrg.m = 0 /\ mrg.n >= 1 /\ mrg.nums1 = mrg.in2

C3_WitnessEmptyRight == mrg.pc = "done" /\ mrg.n = 0 /\ mrg.m >= 1 /\ mrg.nums1 = mrg.in1

(***************************************************************************)
(* 10-IsSubsequence.cpp: Solution::isSubsequence(s, t).                    *)
(***************************************************************************)
Chars == {"a", "b", "c"}

SubInit ==
    /\ \E s \in SeqsUpTo(Chars, MaxLen), t \in SeqsUpTo(Chars, MaxLen + 1) :
          sub = [pc |-> "loop", s |-> s, t |-> t, i |-> 0, j |-> 0, ret |-> FALSE]
    /\ div = Idle /\ mrg = Idle /\ sym = Idle /\ dry = Idle /\ bank = Idle
    /\ chk = Idle /\ enc = Idle /\ ctr = Idle /\ frd = Idle /\ fl = Idle

(* while (i < s.length() && j < t.length()) *)
SubLoopCond(r) == r.i < Len(r.s) /\ r.j < Len(r.t)

(* if (s[i] == t[j]) i++;  j++;  The variant keeps j on a match. *)
SubBodyReuse(r) ==
    IF At(r.s, r.i) = At(r.t, r.j)
    THEN [r EXCEPT !.i = @ + 1]
    ELSE [r EXCEPT !.j = @ + 1]

SubBody(r) ==
    IF At(r.s, r.i) = At(r.t, r.j)
    THEN [r EXCEPT !.i = @ + 1, !.j = @ + 1]
    ELSE [r EXCEPT !.j = @ + 1]

SubStep ==
    /\ sub.pc = "loop"
    /\ SubLoopCond(sub)
    /\ sub' = SubBody(sub)
    /\ UNCHANGED <<div, mrg, sym, dry, bank, chk, enc, ctr, frd, fl>>

(* return i == s.length(); *)
SubReturn ==
    /\ sub.pc = "loop"
    /\ ~SubLoopCond(sub)
    /\ sub' = [sub EXCEPT !.pc = "done", !.ret = (sub.i = Len(sub.s))]
    /\ UNCHANGED <<div, mrg, sym, dry, bank, chk, enc, ctr, frd, fl>>

SubNext == SubStep \/ SubReturn

SpecSub == SubInit /\ [][SubNext]_vars

(* What is left of t when exactly the positions in keep are kept. *)
RECURSIVE KeepFrom(_, _, _)
KeepFrom(t, keep, k) ==
    IF k > Len(t) THEN <<>>
    ELSE (IF k \in keep THEN <<t[k]>> ELSE <<>>) \o KeepFrom(t, keep, k + 1)

FormedByDeleting(s, t) == \E keep \in SUBSET (1..Len(t)) : s = KeepFrom(t, keep, 1)

(* C4: for all strings s and t, isSubsequence(s, t) returns true exactly when
   s can be formed from t by deleting zero or more characters without
   changing the relative order of the remaining ones (so the empty s is a
   subsequence of every t). *)
C4_Subsequence ==
    sub.pc = "done" => (sub.ret <=> FormedByDeleting(sub.s, sub.t))

(* A true answer that skipped characters of t, with a repeated character. *)
C4_Witness ==
    /\ sub.pc = "done" /\ sub.ret
    /\ Len(sub.s) >= 2 /\ sub.s[1] = sub.s[2]
    /\ Len(sub.t) > Len(sub.s)
    /\ sub.t[1] # sub.s[1]

C4_WitnessFalse ==
    /\ sub.pc = "done" /\ ~sub.ret
    /\ Len(sub.s) >= 2 /\ Len(sub.t) > Len(sub.s)
    /\ \A k \in 1..Len(sub.s) : \E l \in 1..Len(sub.t) : sub.t[l] = sub.s[k]

C4_WitnessEmpty == sub.pc = "done" /\ sub.s = <<>> /\ sub.t = <<>> /\ sub.ret

(***************************************************************************)
(* 09-Symmetric-Tree.cpp: Solution::isSymmetric(root), Solution::isMirror. *)
(* A null pointer is the empty tuple, a TreeNode is <<val, left, right>>.  *)
(***************************************************************************)
MaxDepth == 3

Vals == {1, 2}

Null == <<>>

TreeNode(x, left, right) == <<x, left, right>>

val(node) == node[1]

left(node) == node[2]

right(node) == node[3]

(* All trees of at most the given depth (MaxDepth levels below and
   including the root are enumerated). *)
RECURSIVE Trees(_)
Trees(depth) ==
    IF depth = 0 THEN {Null}
    ELSE LET T == Trees(depth - 1)
         IN  {Null} \cup {TreeNode(x, l, r) : x \in Vals, l \in T, r \in T}

(* The variant descends on the same side in both trees. *)
RECURSIVE isSame(_, _)
isSame(leftRoot, rightRoot) ==
    IF leftRoot = Null /\ rightRoot = Null THEN TRUE
    ELSE IF leftRoot = Null \/ rightRoot = Null THEN FALSE
    ELSE /\ val(leftRoot) = val(rightRoot)
         /\ isSame(left(leftRoot), left(rightRoot))
         /\ isSame(right(leftRoot), right(rightRoot))

RECURSIVE isMirror(_, _)
isMirror(leftRoot, rightRoot) ==
    IF leftRoot = Null /\ rightRoot = Null THEN TRUE
    ELSE IF leftRoot = Null \/ rightRoot = Null THEN FALSE
    ELSE /\ val(leftRoot) = val(rightRoot)
         /\ isMirror(left(leftRoot), right(rightRoot))
         /\ isMirror(right(leftRoot), left(rightRoot))

isSymmetric(root) ==
    IF root = Null THEN FALSE ELSE isMirror(left(root), right(root))

SymInit ==
    /\ \/ sym = [pc |-> "call", root |-> Null, ret |-> FALSE]
       \/ \E x \in Vals, l \in Trees(MaxDepth - 1), r \in Trees(MaxDepth - 1) :
             sym = [pc |-> "call", root |-> TreeNode(x, l, r), ret |-> FALSE]
    /\ div = Idle /\ mrg = Idle /\ sub = Idle /\ dry = Idle /\ bank = Idle
    /\ chk = Idle /\ enc = Idle /\ ctr = Idle /\ frd = Idle /\ fl = Idle

SymCall ==
    /\ sym.pc = "call"
    /\ sym' = [sym EXCEPT !.pc = "done", !.ret = isSymmetric(sym.root)]
    /\ UNCHANGED <<div, mrg, sub, dry, bank, chk, enc, ctr, frd, fl>>

SymNext == SymCall

SpecSym == SymInit /\ [][SymNext]_vars

(* The same shape reflected, with the same node values. *)
RECURSIVE Reflect(_)
Reflect(node) ==
    IF node = Null THEN Null
    ELSE TreeNode(val(node), Reflect(right(node)), Reflect(left(node)))

(* C5: for every binary tree with at least one node, isSymmetric(root)
   returns true exactly when the left subtree of the root is the mirror
   image (same shape reflected, equal node values) of the right subtree. *)
C5_Symmetric ==
    (sym.pc = "done" /\ sym.root # Null) =>
        (sym.ret <=> left(sym.root) = Reflect(right(sym.root)))

(* A symmetric tree of three levels whose subtrees are not equal to each
   other, as in the example [1,2,2,3,4,4,3]. *)
C5_Witness ==
    /\ sym.pc = "done" /\ sym.ret
    /\ sym.root # Null /\ left(sym.root) # Null
    /\ left(left(sym.root)) # Null /\ right(left(sym.root)) # Null
    /\ left(sym.root) # right(sym.root)

(* The shape of the example [1,2,2,null,3,null,3]: equal subtrees that are
   not mirror images. *)
C5_WitnessFalse ==
    /\ sym.pc = "done" /\ ~sym.ret
    /\ sym.root # Null /\ left(sym.root) # Null
    /\ left(sym.root) = right(sym.root)

(***************************************************************************)
(* The "dry run" quiz programs of the class demonstrations.  Each is a     *)
(* complete program of its own; cout is the sequence out of what was       *)
(* printed.  SpecDry runs the programs side by side, each at its own pace. *)
(*   virt  : 01-Student-Management.cpp, Problem 2 (Base / Derived)         *)
(*   image : 03-Filtered-Image-Pointers.cpp, Problem 2 (Image)             *)
(*   list  : 04-Friend-List-Operator-Overloading.cpp, Problem 2 (List)     *)
(*   univ  : 01-Association-Composition-Aggregation.cpp, Problem 2         *)
(***************************************************************************)
Last(seq) == seq[Len(seq)]

Front(seq) == SubSeq(seq, 1, Len(seq) - 1)

(* ---- Base / Derived ---- *)
(* show() is declared virtual in Base: the call goes to the override of the
   object's dynamic type. *)
show(dynamicType) == IF dynamicType = "Derived" THEN "Derived" ELSE "Base"

VirtInit == [pc |-> "new", ptr |-> Null, out |-> <<>>]

(* Base* ptr = new Derived();  neither constructor prints. *)
VirtNew ==
    /\ dry.virt.pc = "new"
    /\ dry' = [dry EXCEPT !.virt.pc = "show",
                          !.virt.ptr = [static |-> "Base", dynamic |-> "Derived"]]
    /\ UNCHANGED <<div, mrg, sub, sym, bank, chk, enc, ctr, frd, fl>>

(* ptr->show(); *)
VirtShow ==
    /\ dry.virt.pc = "show"
    /\ dry' = [dry EXCEPT !.virt.pc = "delete",
                          !.virt.out = Append(@, show(dry.virt.ptr.dynamic))]
    /\ UNCHANGED <<div, mrg, sub, sym, bank, chk, enc, ctr, frd, fl>>

(* delete ptr;  ~Base() is not virtual and the object is a Derived: the
   behaviour is undefined.  A build that calls the destructor of the static
   type runs ~Base() alone. *)
VirtDeleteStatic ==
    /\ dry.virt.pc = "delete"
    /\ dry' = [dry EXCEPT !.virt.pc = "done", !.virt.ptr = Null,
                          !.virt.out = Append(@, "~Base")]
    /\ UNCHANGED <<div, mrg, sub, sym, bank, chk, enc, ctr, frd, fl>>

(* The other outcome of the undefined delete: the object is destroyed as a
   Derived, ~Derived() and then ~Base(). *)
VirtDeleteDynamic ==
    /\ dry.virt.pc = "delete"
    /\ dry' = [dry EXCEPT !.virt.pc = "done", !.virt.ptr = Null,
                          !.virt.out = @ \o <<"~Derived", "~Base">>]
    /\ UNCHANGED <<div, mrg, sub, sym, bank, chk, enc, ctr, frd, fl>>

(* ---- Image / List: a static count ---- *)
(* main: two objects, a block with a third, return. *)
CountMain == <<"decl", "decl", "{", "decl", "}", "return">>

CountInit == [pc |-> 1, count |-> 0, live |-> <<>>, out |-> <<>>]

(* The class name printed by program p. *)
ClassName(p) == IF p = "image" THEN "Image" ELSE "List"

(* Image img;  the constructor: count++; data = new int[count]; cout. *)
CountConstruct(p) ==
    /\ dry[p].pc <= Len(CountMain)
    /\ CountMain[dry[p].pc] = "decl"
    /\ LET c == dry[p].count + 1
       IN  dry' = [dry EXCEPT ![p].count = c,
                              ![p].live = Append(@, [kind |-> "object", data |-> c]),
                              ![p].out = Append(@, <<ClassName(p), c>>),
                              ![p].pc = @ + 1]
    /\ UNCHANGED <<div, mrg, sub, sym, bank, chk, enc, ctr, frd, fl>>

(* { : a block opens. *)
CountOpen(p) ==
    /\ dry[p].pc <= Len(CountMain)
    /\ CountMain[dry[p].pc] = "{"
    /\ dry' = [dry EXCEPT ![p].live = Append(@, [kind |-> "{", data |-> 0]), ![p].pc = @ + 1]
    /\ UNCHANGED <<div, mrg, sub, sym, bank, chk, enc, ctr, frd, fl>>

(* The destructor of the newest live object, at the end of its scope:
   delete[] data; cout << "~Image" << count.  count is not changed. *)
CountDestroy(p) ==
    /\ dry[p].pc <= Len(CountMain)
    /\ CountMain[dry[p].pc] \in {"}", "return"}
    /\ dry[p].live # <<>>
    /\ Last(dry[p].live).kind = "object"
    /\ dry' = [dry EXCEPT ![p].live = Front(@),
                          ![p].out = Append(@, <<"~" \o ClassName(p), dry[p].count>>)]
    /\ UNCHANGED <<div, mrg, sub, sym, bank, chk, enc, ctr, frd, fl>>

(* } : the objects of the block are gone, the block closes. *)
CountClose(p) ==
    /\ dry[p].pc <= Len(CountMain)
    /\ CountMain[dry[p].pc] = "}"
    /\ dry[p].live # <<>>
    /\ Last(dry[p].live).kind = "{"
    /\ dry' = [dry EXCEPT ![p].live = Front(@), ![p].pc = @ + 1]
    /\ UNCHANGED <<div, mrg, sub, sym, bank, chk, enc, ctr, frd, fl>>

(* return 0; with every object of main destroyed. *)
CountExit(p) ==
    /\ dry[p].pc <= Len(CountMain)
    /\ CountMain[dry[p].pc] = "return"
    /\ dry[p].live = <<>>
    /\ dry' = [dry EXCEPT ![p].pc = @ + 1]
    /\ UNCHANGED <<div, mrg, sub, sym, bank, chk, enc, ctr, frd, fl>>

CountDone(p) == dry[p].pc = Len(CountMain) + 1

(* ---- Student / University ---- *)
UnivInit == [pc |-> "new", heap |-> {}, stack |-> <<>>, out |-> <<>>]

(* Student* s = new Student(); *)
UnivNewStudent ==
    /\ dry.univ.pc = "new"
    /\ dry' = [dry EXCEPT !.univ.pc = "decl",
                          !.univ.heap = @ \cup {"Student"},
                          !.univ.out = Append(@, "Student created")]
    /\ UNCHANGED <<div, mrg, sub, sym, bank, chk, enc, ctr, frd, fl>>

(* University u;  the students vector starts empty, nothing is printed. *)
UnivDeclare ==
    /\ dry.univ.pc = "decl"
    /\ dry' = [dry EXCEPT !.univ.pc = "return",
                          !.univ.stack = Append(@, [students |-> <<>>])]
    /\ UNCHANGED <<div, mrg, sub, sym, bank, chk, enc, ctr, frd, fl>>

(* return 0;  ~University() runs for u; it prints and deletes nothing, and
   no delete is ever applied to s. *)
UnivReturn ==
    /\ dry.univ.pc = "return"
    /\ dry' = [dry EXCEPT !.univ.pc = "done",
                          !.univ.stack = Front(@),
                          !.univ.out = Append(@, "University destroyed")]
    /\ UNCHANGED <<div, mrg, sub, sym, bank, chk, enc, ctr, frd, fl>>

DryInit ==
    /\ dry = [virt |-> VirtInit, image |-> CountInit, list |-> CountInit,
              univ |-> UnivInit]
    /\ div = Idle /\ mrg = Idle /\ sub = Idle /\ sym = Idle /\ bank = Idle
    /\ chk = Idle /\ enc = Idle /\ ctr = Idle /\ frd = Idle /\ fl = Idle

DryNext ==
    \/ VirtNew \/ VirtShow \/ VirtDeleteStatic \/ VirtDeleteDynamic
    \/ \E p \in {"image", "list"} :
          \/ CountConstruct(p) \/ CountOpen(p) \/ CountDestroy(p)
          \/ CountClose(p) \/ CountExit(p)
    \/ UnivNewStudent \/ UnivDeclare \/ UnivReturn

SpecDry == DryInit /\ [][DryNext]_vars

(* C6: the Base/Derived program prints exactly Derived~Derived~Base:
   deleting through the base pointer runs the Derived destructor and then
   the Base destructor. *)
C6_DerivedThenBase ==
    dry.virt.pc = "done" => dry.virt.out = <<"Derived", "~Derived", "~Base">>

(* C7: the static-count programs print exactly
   Image1Image2Image3~Image3~Image2~Image1 and
   List1List2List3~List3~List2~List1. *)
C7_CountOutput ==
    /\ CountDone("image") =>
          dry.image.out = << <<"Image", 1>>, <<"Image", 2>>, <<"Image", 3>>,
                             <<"~Image", 3>>, <<"~Image", 2>>, <<"~Image", 1>> >>
    /\ CountDone("list") =>
          dry.list.out = << <<"List", 1>>, <<"List", 2>>, <<"List", 3>>,
                            <<"~List", 3>>, <<"~List", 2>>, <<"~List", 1>> >>

(* C8: the Student/University program prints "Student created",
   "University destroyed", "Student destroyed": the heap-allocated Student
   is destroyed, after the University. *)
C8_StudentDestroyedLast ==
    dry.univ.pc = "done" =>
        /\ dry.univ.out = <<"Student created", "University destroyed",
                            "Student destroyed">>
        /\ "Student" \notin dry.univ.heap

(***************************************************************************)
(* 02-Bank-Management.cpp: Account, SavingsAccount, FixedDepositAccount    *)
(* and BankManagementSystem.                                               *)
(*                                                                         *)
(* Money is a double in the program.  Here an amount of d dollars is the   *)
(* integer d * Unit; Unit is chosen so that every interest the model       *)
(* computes (5% of a balance, at most MaxInterest times, and 8% of a       *)
(* deposit) is a whole number of units, so the arithmetic is exact.        *)
(***************************************************************************)
MaxInterest == 2
MaxTxn == 5

SavingsRatePct == 5
FixedRatePct == 8
DefaultMinimumBalance == 100

Unit == 25 * (20 ^ MaxInterest)

PercentOf(x, pct) == (x * pct) \div 100

(* The dollar amounts the callers pass, and the opening balances. *)
Amounts == {-50, 0, 50, 100, 250}

SavingsOpenings == {50, 150, 300}

FixedOpenings == {100, 200}

Transaction(amt, t) == [amount |-> amt, type |-> t]

addTransaction(acc, amount, type) ==
    [acc EXCEPT !.transactions = Append(@, Transaction(amount, type))]

(* What a call of a member function gives: the account after the call and
   the message of the BankException it threw ("" when it returned). *)
Returned(acc) == [acc |-> acc, threw |-> ""]

Threw(acc, msg) == [acc |-> acc, threw |-> msg]

(* Account::Account *)
Account(type, initialBalance) ==
    LET a == [accountType |-> type, balance |-> initialBalance, transactions |-> <<>>]
    IN  IF initialBalance > 0 THEN addTransaction(a, initialBalance, "DEPOSIT") ELSE a

(* Account::deposit *)
AccountDeposit(acc, amount) ==
    IF amount <= 0 THEN Threw(acc, "Deposit amount must be positive")
    ELSE Returned(addTransaction([acc EXCEPT !.balance = @ + amount], amount, "DEPOSIT"))

(* Account::withdraw *)
AccountWithdraw(acc, amount) ==
    IF amount <= 0 THEN Threw(acc, "Withdrawal amount must be positive")
    ELSE IF amount > acc.balance THEN Threw(acc, "Insufficient funds")
    ELSE Returned(addTransaction([acc EXCEPT !.balance = @ - amount], amount, "WITHDRAW"))

(* SavingsAccount::SavingsAccount, with the default rate and minimum. *)
SavingsAccount(initialBalance) ==
    LET base == Account("Savings", initialBalance)
    IN  [accountType |-> base.accountType, balance |-> base.balance,
         transactions |-> base.transactions,
         interestRate |-> SavingsRatePct,
         minimumBalance |-> DefaultMinimumBalance * Unit]

(* SavingsAccount::withdraw; the variant tests the balance before the
   withdrawal against the minimum. *)
SavingsWithdrawNoAmount(acc, amount) ==
    IF acc.balance < acc.minimumBalance
    THEN Threw(acc, "Withdrawal would violate minimum balance requirement")
    ELSE AccountWithdraw(acc, amount)

SavingsWithdraw(acc, amount) ==
    IF acc.balance - amount < acc.minimumBalance
    THEN Threw(acc, "Withdrawal would violate minimum balance requirement")
    ELSE AccountWithdraw(acc, amount)

(* SavingsAccount::calculateInterest *)
SavingsCalculateInterest(acc) ==
    LET interest == PercentOf(acc.balance, acc.interestRate)
    IN  addTransaction([acc EXCEPT !.balance = @ + interest], interest, "INTEREST")

(* FixedDepositAccount::FixedDepositAccount, with the default rate. *)
FixedDepositAccount(amount) ==
    LET base == Account("Fixed Deposit", amount)
    IN  [accountType |-> base.accountType, balance |-> base.balance,
         transactions |-> base.transactions,
         depositAmount |-> amount, interestRate |-> FixedRatePct, isMatured |-> FALSE]

(* FixedDepositAccount::deposit *)
FixedDeposit(acc, amount) ==
    Threw(acc, "Additional deposits not allowed in fixed deposit account")

(* FixedDepositAccount::withdraw; the variant has no maturity test. *)
FixedWithdrawAnyTime(acc, amount) ==
    IF amount > acc.balance THEN Threw(acc, "Insufficient funds")
    ELSE AccountWithdraw(acc, amount)

FixedWithdraw(acc, amount) ==
    IF ~acc.isMatured THEN Threw(acc, "Cannot withdraw before maturity date")
    ELSE IF amount > acc.balance THEN Threw(acc, "Insufficient funds")
    ELSE AccountWithdraw(acc, amount)

(* FixedDepositAccount::calculateInterest *)
FixedCalculateInterest(acc) ==
    IF ~acc.isMatured
    THEN LET interest == PercentOf(acc.depositAmount, acc.interestRate)
         IN  addTransaction([acc EXCEPT !.balance = @ + interest], interest, "INTEREST")
    ELSE acc

(* FixedDepositAccount::matureAccount *)
matureAccount(acc) == FixedCalculateInterest([acc EXCEPT !.isMatured = TRUE])

(* The virtual calls account->deposit(), ->withdraw(), ->calculateInterest(). *)
deposit(acc, amount) ==
    IF acc.accountType = "Savings" THEN AccountDeposit(acc, amount)
    ELSE FixedDeposit(acc, amount)

withdraw(acc, amount) ==
    IF acc.accountType = "Savings" THEN SavingsWithdraw(acc, amount)
    ELSE FixedWithdraw(acc, amount)

calculateInterest(acc) ==
    IF acc.accountType = "Savings" THEN SavingsCalculateInterest(acc)
    ELSE FixedCalculateInterest(acc)
(* ---- BankManagementSystem ---- *)
(* The account numbers callers pass; ACC3 names no account. *)
AccountNumbers == {"ACC1", "ACC2", "ACC3"}

Call(method, accountNumber, amount, threw) ==
    [method |-> method, account |-> accountNumber, amount |-> amount, threw |-> threw]

(* The state after createSavingsAccount and createFixedDepositAccount:
   allAccounts holds ACC1 (savings) and ACC2 (fixed deposit). *)
BankInit ==
    /\ \E s \in SavingsOpenings, f \in FixedOpenings :
          bank = [allAccounts |-> <<"ACC1", "ACC2">>,
                  account |-> [no \in {"ACC1", "ACC2"} |->
                                  IF no = "ACC1" THEN SavingsAccount(s * Unit)
                                  ELSE FixedDepositAccount(f * Unit)],
                  matureCalled |-> FALSE,
                  interestRuns |-> 0,
                  last |-> [op |-> "create", calls |-> <<>>, error |-> ""]]
    /\ div = Idle /\ mrg = Idle /\ sub = Idle /\ sym = Idle /\ dry = Idle
    /\ chk = Idle /\ enc = Idle /\ ctr = Idle /\ frd = Idle /\ fl = Idle

Found(accountNumber) == \E k \in 1..Len(bank.allAccounts) : bank.allAccounts[k] = accountNumber

TxnCount ==
    Len(bank.account["ACC1"].transactions) + Len(bank.account["ACC2"].transactions)

(* BankManagementSystem::deposit: the exception is caught and printed. *)
BmsDeposit(accountNumber, amount) ==
    /\ TxnCount < MaxTxn
    /\ IF Found(accountNumber)
       THEN LET r == deposit(bank.account[accountNumber], amount)
            IN  bank' = [bank EXCEPT
                    !.account[accountNumber] = r.acc,
                    !.last = [op |-> "deposit",
                              calls |-> <<Call("deposit", accountNumber, amount, r.threw)>>,
                              error |-> r.threw]]
       ELSE bank' = [bank EXCEPT
                    !.last = [op |-> "deposit", calls |-> <<>>, error |-> "Account not found"]]
    /\ UNCHANGED <<div, mrg, sub, sym, dry, chk, enc, ctr, frd, fl>>

(* BankManagementSystem::withdraw: the exception is caught and printed. *)
BmsWithdraw(accountNumber, amount) ==
    /\ TxnCount < MaxTxn
    /\ IF Found(accountNumber)
       THEN LET r == withdraw(bank.account[accountNumber], amount)
            IN  bank' = [bank EXCEPT
                    !.account[accountNumber] = r.acc,
                    !.last = [op |-> "withdraw",
                              calls |-> <<Call("withdraw", accountNumber, amount, r.threw)>>,
                              error |-> r.threw]]
       ELSE bank' = [bank EXCEPT
                    !.last = [op |-> "withdraw", calls |-> <<>>, error |-> "Account not found"]]
    /\ UNCHANGED <<div, mrg, sub, sym, dry, chk, enc, ctr, frd, fl>>

(* BankManagementSystem::transfer: fromAcc->withdraw(amount), and when that
   returned toAcc->deposit(amount); whichever throws ends the transfer. *)
BmsTransfer(fromAccount, toAccount, amount) ==
    /\ TxnCount < MaxTxn
    /\ IF Found(fromAccount) /\ Found(toAccount)
       THEN LET w == withdraw(bank.account[fromAccount], amount)
                afterW == [bank.account EXCEPT ![fromAccount] = w.acc]
                d == deposit(afterW[toAccount], amount)
            IN  IF w.threw # ""
                THEN bank' = [bank EXCEPT
                        !.last = [op |-> "transfer",
                                  calls |-> <<Call("withdraw", fromAccount, amount, w.threw)>>,
                                  error |-> w.threw]]
                ELSE bank' = [bank EXCEPT
                        !.account = [afterW EXCEPT ![toAccount] = d.acc],
                        !.last = [op |-> "transfer",
                                  calls |-> <<Call("withdraw", fromAccount, amount, w.threw),
                                              Call("deposit", toAccount, amount, d.threw)>>,
                                  error |-> d.threw]]
       ELSE bank' = [bank EXCEPT
                    !.last = [op |-> "transfer", calls |-> <<>>,
                              error |-> "One or both accounts not found"]]
    /\ UNCHANGED <<div, mrg, sub, sym, dry, chk, enc, ctr, frd, fl>>

(* BankManagementSystem::calculateInterestForAll *)
BmsCalculateInterestForAll ==
    /\ TxnCount < MaxTxn
    /\ bank.interestRuns < MaxInterest
    /\ bank' = [bank EXCEPT
            !.account = [no \in DOMAIN bank.account |-> calculateInterest(bank.account[no])],
            !.interestRuns = @ + 1,
            !.last = [op |-> "interest", calls |-> <<>>, error |-> ""]]
    /\ UNCHANGED <<div, mrg, sub, sym, dry, chk, enc, ctr, frd, fl>>

(* A caller holding the fixed deposit account calls matureAccount(). *)
MatureAccount ==
    /\ TxnCount < MaxTxn
    /\ bank' = [bank EXCEPT
            !.account["ACC2"] = matureAccount(@),
            !.matureCalled = TRUE,
            !.last = [op |-> "mature", calls |-> <<>>, error |-> ""]]
    /\ UNCHANGED <<div, mrg, sub, sym, dry, chk, enc, ctr, frd, fl>>

BankNext ==
    \/ \E no \in AccountNumbers, d \in Amounts : BmsDeposit(no, d * Unit)
    \/ \E no \in AccountNumbers, d \in Amounts : BmsWithdraw(no, d * Unit)
    \/ \E from \in AccountNumbers, to \in AccountNumbers, d \in Amounts :
          BmsTransfer(from, to, d * Unit)
    \/ BmsCalculateInterestForAll
    \/ MatureAccount

SpecBank == BankInit /\ [][BankNext]_vars

(* The interest the model computes is never rounded. *)
InterestExact ==
    /\ (bank.account["ACC1"].balance * SavingsRatePct) % 100 = 0
           \/ bank.interestRuns >= MaxInterest
    /\ (bank.account["ACC2"].depositAmount * FixedRatePct) % 100 = 0

(* The calls of withdraw() made on account number no in the step. *)
WithdrawCalls(no) ==
    {k \in 1..Len(bank'.last.calls) :
        bank'.last.calls[k].method = "withdraw" /\ bank'.last.calls[k].account = no}

Untouched(no) ==
    /\ bank'.account[no].balance = bank.account[no].balance
    /\ bank'.account[no].transactions = bank.account[no].transactions

(* C9: in every sequence of operations, a withdraw(amount) call on a
   FixedDepositAccount for which matureAccount() has not yet been called
   throws BankException and leaves the balance and the transaction history
   unchanged. *)
C9_NoWithdrawBeforeMaturity ==
    [][\A k \in WithdrawCalls("ACC2") :
          ~bank.matureCalled =>
              /\ bank'.last.calls[k].threw # ""
              /\ Untouched("ACC2")]_vars

(* A withdrawal within the balance was refused before maturity, after
   interest had been credited. *)
C9_Witness ==
    /\ ~bank.matureCalled
    /\ bank.interestRuns >= 1
    /\ bank.last.op = "withdraw"
    /\ bank.last.calls # <<>>
    /\ bank.last.calls[1].account = "ACC2"
    /\ bank.last.calls[1].amount > 0
    /\ bank.last.calls[1].amount <= bank.account["ACC2"].balance
    /\ bank.last.error = "Cannot withdraw before maturity date"

(* After matureAccount() a withdrawal goes through. *)
C9_WitnessMatured ==
    /\ bank.matureCalled
    /\ bank.last.op = "withdraw"
    /\ bank.last.calls # <<>>
    /\ bank.last.calls[1].account = "ACC2"
    /\ bank.last.error = ""

(* C10: whenever balance - amount < minimumBalance, SavingsAccount::withdraw
   throws BankException and changes nothing, so no successful withdrawal
   ever leaves the balance below minimumBalance. *)
C10_MinimumBalance ==
    [][\A k \in WithdrawCalls("ACC1") :
          LET acc == bank.account["ACC1"]
              c == bank'.last.calls[k]
          IN  /\ acc.balance - c.amount < acc.minimumBalance =>
                    c.threw # "" /\ bank'.account = bank.account
              /\ c.threw = "" =>
                    /\ bank'.account["ACC1"].balance >= acc.minimumBalance
                    /\ acc.balance - c.amount >= acc.minimumBalance]_vars

(* A withdrawal within the balance was refused because of the minimum. *)
C10_Witness ==
    /\ bank.last.op = "withdraw"
    /\ bank.last.calls # <<>>
    /\ bank.last.calls[1].account = "ACC1"
    /\ bank.last.calls[1].amount > 0
    /\ bank.last.calls[1].amount <= bank.account["ACC1"].balance
    /\ bank.account["ACC1"].balance >= bank.account["ACC1"].minimumBalance
    /\ bank.last.error = "Withdrawal would violate minimum balance requirement"

(* A withdrawal went through and left exactly the minimum. *)
C10_WitnessSuccess ==
    /\ bank.last.op = "withdraw"
    /\ bank.last.calls # <<>>
    /\ bank.last.calls[1].account = "ACC1"
    /\ bank.last.error = ""
    /\ bank.account["ACC1"].balance = bank.account["ACC1"].minimumBalance

(***************************************************************************)
(* The programs below leave the variables of the programs above alone.     *)
(***************************************************************************)
earlier == <<div, mrg, sub, sym, dry, bank>>

EarlierIdle ==
    /\ div = Idle /\ mrg = Idle /\ sub = Idle /\ sym = Idle /\ dry = Idle /\ bank = Idle

(***************************************************************************)
(* 02-Bank-Management.cpp: CheckingAccount.  deposit() is inherited from   *)
(* Account; money is counted in Unit as above.                             *)
(***************************************************************************)
DefaultOverdraftLimit == 500
DefaultTransactionFee == 2

(* The arguments of the constructor: opening balances (none negative) and
   overdraft limits (none negative), in dollars. *)
CheckingOpenings == {0, 50}

OverdraftLimits == {0, 100, DefaultOverdraftLimit}

CheckingAmounts == {-50, 0, 48, 98, 100, 250, 548}

(* CheckingAccount::CheckingAccount *)
CheckingAccount(initialBalance, overdraft, fee) ==
    LET base == Account("Checking", initialBalance)
    IN  [accountType |-> base.accountType, balance |-> base.balance,
         transactions |-> base.transactions,
         overdraftLimit |-> overdraft, transactionFee |-> fee]

(* CheckingAccount::withdraw; the variant leaves the fee out of the test. *)
CheckingWithdrawFeeUnchecked(acc, amount) ==
    IF amount <= 0 THEN Threw(acc, "Withdrawal amount must be positive")
    ELSE LET totalAmount == amount + acc.transactionFee
         IN  IF acc.balance + acc.overdraftLimit < amount
             THEN Threw(acc, "Withdrawal exceeds overdraft limit")
             ELSE Returned(addTransaction(
                      addTransaction([acc EXCEPT !.balance = @ - totalAmount],
                                     amount, "WITHDRAW"),
                      acc.transactionFee, "FEE"))

CheckingWithdraw(acc, amount) ==
    IF amount <= 0 THEN Threw(acc, "Withdrawal amount must be positive")
    ELSE LET totalAmount == amount + acc.transactionFee
         IN  IF acc.balance + acc.overdraftLimit < totalAmount
             THEN Threw(acc, "Withdrawal exceeds overdraft limit")
             ELSE Returned(addTransaction(
                      addTransaction([acc EXCEPT !.balance = @ - totalAmount],
                                     amount, "WITHDRAW"),
                      acc.transactionFee, "FEE"))

ChkInit ==
    /\ \E b \in CheckingOpenings, o \in OverdraftLimits :
          chk = [acc |-> CheckingAccount(b * Unit, o * Unit, DefaultTransactionFee * Unit),
                 last |-> [method |-> "create", amount |-> b * Unit, threw |-> ""]]
    /\ EarlierIdle
    /\ enc = Idle /\ ctr = Idle /\ frd = Idle /\ fl = Idle

(* account.deposit(amount): Account::deposit, not overridden. *)
ChkDeposit(amount) ==
    /\ Len(chk.acc.transactions) < MaxTxn
    /\ LET r == AccountDeposit(chk.acc, amount)
       IN  chk' = [acc |-> r.acc,
                   last |-> [method |-> "deposit", amount |-> amount, threw |-> r.threw]]
    /\ UNCHANGED <<earlier, enc, ctr, frd, fl>>

(* account.withdraw(amount) *)
ChkWithdraw(amount) ==
    /\ Len(chk.acc.transactions) < MaxTxn
    /\ LET r == CheckingWithdraw(chk.acc, amount)
       IN  chk' = [acc |-> r.acc,
                   last |-> [method |-> "withdraw", amount |-> amount, threw |-> r.threw]]
    /\ UNCHANGED <<earlier, enc, ctr, frd, fl>>

ChkNext ==
    \/ \E d \in CheckingAmounts : ChkDeposit(d * Unit)
    \/ \E d \in CheckingAmounts : ChkWithdraw(d * Unit)

SpecChecking == ChkInit /\ [][ChkNext]_vars

(* C11: for a CheckingAccount opened with a non-negative initial balance,
   after any sequence of deposit and withdraw calls (successful or
   rejected, the fee charged on each successful withdrawal) the balance is
   never less than -overdraftLimit. *)
C11_OverdraftBound == chk.acc.balance >= -chk.acc.overdraftLimit

(* A withdrawal with its fee took the balance exactly to -overdraftLimit,
   below zero. *)
C11_Witness ==
    /\ chk.last.method = "withdraw" /\ chk.last.threw = ""
    /\ chk.acc.overdraftLimit > 0
    /\ chk.acc.balance = -chk.acc.overdraftLimit

(* A withdrawal was rejected on an overdrawn account. *)
C11_WitnessRejected ==
    /\ chk.last.method = "withdraw"
    /\ chk.last.threw = "Withdrawal exceeds overdraft limit"
    /\ chk.acc.balance < 0

(***************************************************************************)
(* 01-Encapsulation-Basics.cpp: class BankAccount.  A line of the          *)
(* transaction history is the pair of its text and the amount written      *)
(* after it.                                                               *)
(***************************************************************************)
MaxHistory == 4

(* The passwords callers present (the account's own is one of them), the
   amounts and the opening balances. *)
Passwords == {"secret123", "wrong", ""}

EncAmounts == {-10, 0, 10, 25}

EncOpenings == {0, 20}

(* BankAccount::authenticate *)
authenticate(acc, pwd) == acc.password = pwd

(* BankAccount::addTransaction *)
encAddTransaction(acc, text, amount) ==
    [acc EXCEPT !.transactionHistory = Append(@, <<text, amount>>)]

(* BankAccount::BankAccount *)
BankAccount(pwd, initialBalance) ==
    encAddTransaction([password |-> pwd, balance |-> initialBalance,
                       transactionHistory |-> <<>>],
                      "Account opened with balance: $", initialBalance)

(* BankAccount::deposit: the account after the call and the value returned. *)
BankAccountDeposit(acc, amount, pwd) ==
    IF authenticate(acc, pwd) /\ amount > 0
    THEN [acc |-> encAddTransaction([acc EXCEPT !.balance = @ + amount],
                                    "Deposit: +$", amount),
          ret |-> TRUE]
    ELSE [acc |-> acc, ret |-> FALSE]

(* BankAccount::withdraw; the variant does not ask for the password. *)
BankAccountWithdrawOpen(acc, amount, pwd) ==
    IF amount > 0 /\ amount <= acc.balance
    THEN [acc |-> encAddTransaction([acc EXCEPT !.balance = @ - amount],
                                    "Withdrawal: -$", amount),
          ret |-> TRUE]
    ELSE [acc |-> acc, ret |-> FALSE]

BankAccountWithdraw(acc, amount, pwd) ==
    IF authenticate(acc, pwd) /\ amount > 0 /\ amount <= acc.balance
    THEN [acc |-> encAddTransaction([acc EXCEPT !.balance = @ - amount],
                                    "Withdrawal: -$", amount),
          ret |-> TRUE]
    ELSE [acc |-> acc, ret |-> FALSE]

(* BankAccount::getBalance *)
getBalance(acc, pwd) == IF authenticate(acc, pwd) THEN acc.balance ELSE -1

EncLast(method, amount, pwd, ret, value) ==
    [method |-> method, amount |-> amount, pwd |-> pwd, ret |-> ret, value |-> value]

EncInit ==
    /\ \E pwd \in Passwords, b \in EncOpenings :
          enc = [acc |-> BankAccount(pwd, b),
                 last |-> EncLast("create", b, pwd, TRUE, 0)]
    /\ EarlierIdle
    /\ chk = Idle /\ ctr = Idle /\ frd = Idle /\ fl = Idle

EncDeposit(amount, pwd) ==
    /\ Len(enc.acc.transactionHistory) < MaxHistory
    /\ LET r == BankAccountDeposit(enc.acc, amount, pwd)
       IN  enc' = [acc |-> r.acc, last |-> EncLast("deposit", amount, pwd, r.ret, 0)]
    /\ UNCHANGED <<earlier, chk, ctr, frd, fl>>

EncWithdraw(amount, pwd) ==
    /\ Len(enc.acc.transactionHistory) < MaxHistory
    /\ LET r == BankAccountWithdraw(enc.acc, amount, pwd)
       IN  enc' = [acc |-> r.acc, last |-> EncLast("withdraw", amount, pwd, r.ret, 0)]
    /\ UNCHANGED <<earlier, chk, ctr, frd, fl>>

(* getBalance(pwd) reads the account and changes nothing. *)
EncGetBalance(pwd) ==
    /\ Len(enc.acc.transactionHistory) < MaxHistory
    /\ enc' = [enc EXCEPT !.last = EncLast("getBalance", 0, pwd, authenticate(enc.acc, pwd),
                                           getBalance(enc.acc, pwd))]
    /\ UNCHANGED <<earlier, chk, ctr, frd, fl>>

EncNext ==
    \/ \E a \in EncAmounts, pwd \in Passwords : EncDeposit(a, pwd)
    \/ \E a \in EncAmounts, pwd \in Passwords : EncWithdraw(a, pwd)
    \/ \E pwd \in Passwords : EncGetBalance(pwd)

SpecEnc == EncInit /\ [][EncNext]_vars

(* C12: every deposit(amount, pwd) or withdraw(amount, pwd) whose pwd
   differs from the account's password returns false and leaves the balance
   and the transaction history exactly as they were; the balance changes
   only through a call carrying the correct password. *)
C12_PasswordGuards ==
    [][/\ (enc'.last.method \in {"deposit", "withdraw"}
              /\ enc'.last.pwd # enc.acc.password)
          => /\ enc'.last.ret = FALSE
             /\ enc'.acc.balance = enc.acc.balance
             /\ enc'.acc.transactionHistory = enc.acc.transactionHistory
       /\ enc'.acc.balance # enc.acc.balance
          => /\ enc'.last.method \in {"deposit", "withdraw"}
             /\ enc'.last.pwd = enc.acc.password]_vars

(* A withdrawal the balance would have covered was refused for its
   password, after a deposit with the right one. *)
C12_Witness ==
    /\ enc.last.method = "withdraw"
    /\ enc.last.pwd # enc.acc.password
    /\ enc.last.amount > 0 /\ enc.last.amount <= enc.acc.balance
    /\ enc.last.ret = FALSE
    /\ Len(enc.acc.transactionHistory) >= 2

(* A deposit with the right password changed the balance. *)
C12_WitnessAccepted ==
    /\ enc.last.method = "deposit"
    /\ enc.last.pwd = enc.acc.password
    /\ enc.last.ret = TRUE

(***************************************************************************)
(* 02-Constructors-Destructors.cpp: class Counter.  alive holds the        *)
(* Counter objects whose lifetime has begun and not ended, oldest first;   *)
(* created counts the objects ever made.                                   *)
(***************************************************************************)
MaxObjects == 5

(* int Counter::count = 0; no object exists yet. *)
CtrInit ==
    /\ ctr = [count |-> 0, alive |-> <<>>, created |-> 0]
    /\ EarlierIdle
    /\ chk = Idle /\ enc = Idle /\ frd = Idle /\ fl = Idle

(* Counter c;  Counter::Counter(): count++; id = count. *)
CtrConstruct ==
    /\ ctr.created < MaxObjects
    /\ LET c == ctr.count + 1
       IN  ctr' = [count |-> c, alive |-> Append(ctr.alive, [id |-> c]),
                   created |-> ctr.created + 1]
    /\ UNCHANGED <<earlier, chk, enc, frd, fl>>

(* Counter c2 = c1;  the class declares no copy constructor, so the
   implicit one runs: it copies id and does not touch count. *)
CtrCopy(k) ==
    /\ ctr.created < MaxObjects
    /\ k \in 1..Len(ctr.alive)
    /\ ctr' = [ctr EXCEPT !.alive = Append(@, [id |-> ctr.alive[k].id]),
                          !.created = @ + 1]
    /\ UNCHANGED <<earlier, chk, enc, frd, fl>>

(* The lifetime of the k-th live object ends: Counter::~Counter(): count--. *)
CtrDestroy(k) ==
    /\ k \in 1..Len(ctr.alive)
    /\ ctr' = [ctr EXCEPT !.count = @ - 1,
                          !.alive = SubSeq(@, 1, k - 1) \o SubSeq(@, k + 1, Len(@))]
    /\ UNCHANGED <<earlier, chk, enc, frd, fl>>

CtrNext ==
    \/ CtrConstruct
    \/ \E k \in 1..MaxObjects : CtrCopy(k)
    \/ \E k \in 1..MaxObjects : CtrDestroy(k)

SpecCounter == CtrInit /\ [][CtrNext]_vars

(* Counter::getCount() *)
getCount == ctr.count

(* C13: at every point of any program using class Counter (objects
   created, copied and destroyed in any order), Counter::getCount() equals
   the number of Counter objects currently alive. *)
C13_CountIsAlive == getCount = Len(ctr.alive)

(* The part of C13 about the demonstration: three Counters and no copy give
   3, and 0 once the three are destroyed. *)
C13_ThreeThenZero ==
    /\ (ctr.created = 3 /\ Len(ctr.alive) = 3
           /\ \A k \in 1..3 : ctr.alive[k].id = k) => getCount = 3

(***************************************************************************)
(* 04-Friend-List-Operator-Overloading.cpp: class Friend.  Only            *)
(* friendshipLevel is kept of a Friend; friends holds the named Friend     *)
(* objects of the program, temp the Friend object the last call returned   *)
(* (empty when it returned a reference or threw), last the call itself.    *)
(***************************************************************************)
MaxFriends == 2
MaxMagnitude == 12

Levels == {-3, 0, 1, 5, 10, 11}
Factors == {-2, -1, 0, 1, 2, 3}

(* std::min, std::max *)
min(a, b) == IF b < a THEN b ELSE a
max(a, b) == IF a < b THEN b ELSE a

(* int / int: the quotient truncated toward zero; b # 0. *)
Quot(a, b) ==
    LET abs(x) == IF x < 0 THEN -x ELSE x
        q == abs(a) \div abs(b)
    IN  IF (a < 0) = (b < 0) THEN q ELSE -q

FriendOk(level) == [obj |-> <<[friendshipLevel |-> level]>>, threw |-> ""]
FriendThrew(msg) == [obj |-> <<>>, threw |-> msg]

(* Friend::Friend(n, a, p, e, level): the object exists only when the
   constructor returns. *)
Friend(level) ==
    IF level < 1 \/ level > 10
    THEN FriendThrew("Friendship level must be between 1 and 10")
    ELSE FriendOk(level)

(* Friend::Friend() *)
FriendDefault == FriendOk(1)

(* Friend::setFriendshipLevel *)
setFriendshipLevel(f, level) ==
    IF level < 1 \/ level > 10
    THEN [obj |-> <<f>>, threw |-> "Friendship level must be between 1 and 10"]
    ELSE [obj |-> <<[f EXCEPT !.friendshipLevel = level]>>, threw |-> ""]

(* Friend::operator+, operator-, operator*, operator/ : a new Friend. *)
FriendPlus(f, other) == Friend(min(10, f.friendshipLevel + other.friendshipLevel))
FriendMinus(f, other) == Friend(max(1, f.friendshipLevel - other.friendshipLevel))
FriendTimes(f, factor) == Friend(min(10, f.friendshipLevel * factor))
FriendDivide(f, divisor) ==
    IF divisor = 0 THEN FriendThrew("Division by zero")
    ELSE Friend(max(1, Quot(f.friendshipLevel, divisor)))

(* Friend::operator+=, -=, *=, /= : *this after the call. *)
FriendPlusAssign(f, other) ==
    [f EXCEPT !.friendshipLevel = min(10, @ + other.friendshipLevel)]
FriendMinusAssign(f, other) ==
    [f EXCEPT !.friendshipLevel = max(1, @ - other.friendshipLevel)]
FriendTimesAssign(f, factor) ==
    [f EXCEPT !.friendshipLevel = min(10, @ * factor)]
FriendDivideAssign(f, divisor) ==
    IF divisor = 0 THEN [obj |-> <<f>>, threw |-> "Division by zero"]
    ELSE [obj |-> <<[f EXCEPT !.friendshipLevel = max(1, Quot(@, divisor))]>>,
          threw |-> ""]

(* Friend::operator++, operator-- (prefix and postfix change *this alike) *)
FriendIncrement(f) == [f EXCEPT !.friendshipLevel = min(10, @ + 1)]
FriendDecrement(f) == [f EXCEPT !.friendshipLevel = max(1, @ - 1)]

(* operator>>(istream&, Friend&): is >> f.friendshipLevel stores the number
   read, then the range is tested. *)
FriendInput(f, level) ==
    LET g == [f EXCEPT !.friendshipLevel = level]
    IN  IF g.friendshipLevel < 1 \/ g.friendshipLevel > 10
        THEN [obj |-> <<g>>, threw |-> "Friendship level must be between 1 and 10"]
        ELSE [obj |-> <<g>>, threw |-> ""]

FrdLast(op, threw) == [op |-> op, threw |-> threw]

FrdInit ==
    /\ frd = [friends |-> <<>>, temp |-> <<>>, last |-> FrdLast("", "")]
    /\ EarlierIdle
    /\ chk = Idle /\ enc = Idle /\ ctr = Idle /\ fl = Idle

(* A call that makes a named object: it joins friends when the constructor
   returns. *)
FrdDeclare(op, r) ==
    /\ Len(frd.friends) < MaxFriends
    /\ frd' = [friends |-> frd.friends \o r.obj, temp |-> <<>>,
               last |-> FrdLast(op, r.threw)]
    /\ UNCHANGED <<earlier, chk, enc, ctr, fl>>

(* A call on friends[i] that returns a new Friend by value. *)
FrdValue(op, r) ==
    /\ frd' = [frd EXCEPT !.temp = r.obj, !.last = FrdLast(op, r.threw)]
    /\ UNCHANGED <<earlier, chk, enc, ctr, fl>>

(* A call that leaves friends[i] as f and returns copy (none, or the
   postfix operators' copy of the old value). *)
FrdUpdate(op, i, f, copy, threw) ==
    /\ f.friendshipLevel >= -MaxMagnitude /\ f.friendshipLevel <= MaxMagnitude
    /\ frd' = [friends |-> [frd.friends EXCEPT ![i] = f], temp |-> copy,
               last |-> FrdLast(op, threw)]
    /\ UNCHANGED <<earlier, chk, enc, ctr, fl>>

FrdDefault == FrdDeclare("Friend()", FriendDefault)
FrdConstruct(level) == FrdDeclare("Friend(level)", Friend(level))

FrdSetFriendshipLevel(i, level) ==
    /\ i \in 1..Len(frd.friends)
    /\ LET r == setFriendshipLevel(frd.friends[i], level)
       IN  FrdUpdate("setFriendshipLevel", i, r.obj[1], <<>>, r.threw)

FrdPlus(i, j) ==
    /\ i \in 1..Len(frd.friends) /\ j \in 1..Len(frd.friends)
    /\ FrdValue("+", FriendPlus(frd.friends[i], frd.friends[j]))
FrdMinus(i, j) ==
    /\ i \in 1..Len(frd.friends) /\ j \in 1..Len(frd.friends)
    /\ FrdValue("-", FriendMinus(frd.friends[i], frd.friends[j]))
FrdTimes(i, factor) ==
    /\ i \in 1..Len(frd.friends)
    /\ FrdValue("*", FriendTimes(frd.friends[i], factor))
FrdDivide(i, divisor) ==
    /\ i \in 1..Len(frd.friends)
    /\ FrdValue("/", FriendDivide(frd.friends[i], divisor))

FrdPlusAssign(i, j) ==
    /\ i \in 1..Len(frd.friends) /\ j \in 1..Len(frd.friends)
    /\ FrdUpdate("+=", i, FriendPlusAssign(frd.friends[i], frd.friends[j]), <<>>, "")
FrdMinusAssign(i, j) ==
    /\ i \in 1..Len(frd.friends) /\ j \in 1..Len(frd.friends)
    /\ FrdUpdate("-=", i, FriendMinusAssign(frd.friends[i], frd.friends[j]), <<>>, "")
FrdTimesAssign(i, factor) ==
    /\ i \in 1..Len(frd.friends)
    /\ FrdUpdate("*=", i, FriendTimesAssign(frd.friends[i], factor), <<>>, "")
FrdDivideAssign(i, divisor) ==
    /\ i \in 1..Len(frd.friends)
    /\ LET r == FriendDivideAssign(frd.friends[i], divisor)
       IN  FrdUpdate("/=", i, r.obj[1], <<>>, r.threw)

FrdPreIncrement(i) ==
    /\ i \in 1..Len(frd.friends)
    /\ FrdUpdate("++f", i, FriendIncrement(frd.friends[i]), <<>>, "")
FrdPostIncrement(i) ==
    /\ i \in 1..Len(frd.friends)
    /\ FrdUpdate("f++", i, FriendIncrement(frd.friends[i]), <<frd.friends[i]>>, "")
FrdPreDecrement(i) ==
    /\ i \in 1..Len(frd.friends)
    /\ FrdUpdate("--f", i, FriendDecrement(frd.friends[i]), <<>>, "")
FrdPostDecrement(i) ==
    /\ i \in 1..Len(frd.friends)
    /\ FrdUpdate("f--", i, FriendDecrement(frd.friends[i]), <<frd.friends[i]>>, "")

FrdInput(i, level) ==
    /\ i \in 1..Len(frd.friends)
    /\ LET r == FriendInput(frd.friends[i], level)
       IN  FrdUpdate(">>", i, r.obj[1], <<>>, r.threw)

FrdNext ==
    \/ FrdDefault
    \/ \E level \in Levels : FrdConstruct(level)
    \/ \E i \in 1..MaxFriends, level \in Levels : FrdSetFriendshipLevel(i, level)
    \/ \E i, j \in 1..MaxFriends : FrdPlus(i, j)
    \/ \E i, j \in 1..MaxFriends : FrdMinus(i, j)
    \/ \E i \in 1..MaxFriends, factor \in Factors : FrdTimes(i, factor)
    \/ \E i \in 1..MaxFriends, divisor \in Factors : FrdDivide(i, divisor)
    \/ \E i, j \in 1..MaxFriends : FrdPlusAssign(i, j)
    \/ \E i, j \in 1..MaxFriends : FrdMinusAssign(i, j)
    \/ \E i \in 1..MaxFriends, factor \in Factors : FrdTimesAssign(i, factor)
    \/ \E i \in 1..MaxFriends, divisor \in Factors : FrdDivideAssign(i, divisor)
    \/ \E i \in 1..MaxFriends : FrdPreIncrement(i)
    \/ \E i \in 1..MaxFriends : FrdPostIncrement(i)
    \/ \E i \in 1..MaxFriends : FrdPreDecrement(i)
    \/ \E i \in 1..MaxFriends : FrdPostDecrement(i)
    \/ \E i \in 1..MaxFriends, level \in Levels : FrdInput(i, level)

SpecFriend == FrdInit /\ [][FrdNext]_vars

OnScale(f) == 1 <= f.friendshipLevel /\ f.friendshipLevel <= 10

(* C14: the friendshipLevel of every Friend object is on the 1-10 scale at
   all times, after any sequence of construction, setFriendshipLevel, the
   arithmetic, compound and increment operators and operator>>, whether a
   call succeeds or throws. *)
C14_LevelOnScale ==
    /\ \A i \in 1..Len(frd.friends) : OnScale(frd.friends[i])
    /\ \A i \in 1..Len(frd.temp) : OnScale(frd.temp[i])

(* The part of C14 that the code keeps: a Friend that a constructor, an
   operator returning a new Friend, or setFriendshipLevel has just produced
   is on the scale; only operator*= and a throwing operator>> leave it. *)
C14_OffScaleOnlyByTimesAssignOrInput ==
    [][(C14_LevelOnScale /\ ~C14_LevelOnScale') =>
           (frd'.last.op = "*=" \/ (frd'.last.op = ">>" /\ frd'.last.threw # ""))]_vars

(***************************************************************************)
(* 04-Friend-List-Operator-Overloading.cpp: class FriendList.  A list is   *)
(* its vector friends (each Friend kept as its friendId) and its capacity; *)
(* lists holds the named FriendList objects, temp the list the last call   *)
(* returned by value, last the call and the exception it threw.            *)
(***************************************************************************)
MaxLists == 2
MaxSize == 3

FriendIds == {1, 2}
Capacities == {0, 1, 2}
InputCapacities == {-1, 0, 1, 2}

(* FriendList::FriendList(name, cap) *)
FriendList(cap) == [friends |-> <<>>, capacity |-> cap]

getSize(list) == Len(list.friends)
getCapacity(list) == list.capacity

(* FriendList::isFull: friends.size() >= capacity compares as unsigned, so
   a negative capacity converts to a value no size reaches. *)
isFull(list) ==
    IF list.capacity < 0 THEN FALSE ELSE Len(list.friends) >= list.capacity

(* FriendList::addFriend *)
addFriend(list, f) ==
    IF isFull(list)
    THEN [list |-> list, threw |-> "Friend list is full"]
    ELSE [list |-> [list EXCEPT !.friends = Append(@, f)], threw |-> ""]

(* FriendList::removeFriend: erases the first friend with the id. *)
removeFriend(list, friendId) ==
    LET hits == {k \in 1..Len(list.friends) : list.friends[k] = friendId}
    IN  IF hits = {}
        THEN [list |-> list, threw |-> "Friend not found"]
        ELSE LET k == CHOOSE h \in hits : \A g \in hits : h <= g
             IN  [list |-> [list EXCEPT !.friends =
                               SubSeq(@, 1, k - 1) \o SubSeq(@, k + 1, Len(@))],
                  threw |-> ""]

(* for (f : fs) list.addFriend(f), left at the first exception *)
RECURSIVE addAll(_, _)
addAll(list, fs) ==
    IF fs = <<>> THEN [list |-> list, threw |-> ""]
    ELSE LET r == addFriend(list, Head(fs))
         IN  IF r.threw # "" THEN r ELSE addAll(r.list, Tail(fs))

(* FriendList::operator+ *)
ListPlus(list, other) ==
    addAll(FriendList(list.capacity + other.capacity), list.friends \o other.friends)

(* FriendList::operator+= *)
RECURSIVE ListPlusAssign(_, _)
ListPlusAssign(list, fs) ==
    IF fs = <<>> THEN list
    ELSE ListPlusAssign(IF ~isFull(list) THEN addFriend(list, Head(fs)).list ELSE list,
                        Tail(fs))

(* FriendList::operator- *)
ListMinus(list, other) ==
    addAll(FriendList(list.capacity),
           SelectSeq(list.friends,
                     LAMBDA f : \A k \in 1..Len(other.friends) : other.friends[k] # f))

(* operator>>(istream&, FriendList&) *)
ListInput(list, cap) == [list EXCEPT !.capacity = cap]

FlInit ==
    /\ fl = [lists |-> <<>>, temp |-> <<>>, last |-> [op |-> "", threw |-> ""]]
    /\ EarlierIdle
    /\ chk = Idle /\ enc = Idle /\ ctr = Idle /\ frd = Idle

(* The state after a call op that leaves the named lists as ls and returns
   the lists in t by value. *)
FlStep(op, ls, t, threw) ==
    /\ \A k \in 1..Len(ls) : Len(ls[k].friends) <= MaxSize
    /\ fl' = [lists |-> ls, temp |-> t, last |-> [op |-> op, threw |-> threw]]
    /\ UNCHANGED <<earlier, chk, enc, ctr, frd>>

FlConstruct(cap) ==
    /\ Len(fl.lists) < MaxLists
    /\ FlStep("FriendList", Append(fl.lists, FriendList(cap)), <<>>, "")

FlAddFriend(i, f) ==
    /\ i \in 1..Len(fl.lists)
    /\ LET r == addFriend(fl.lists[i], f)
       IN  FlStep("addFriend", [fl.lists EXCEPT ![i] = r.list], <<>>, r.threw)

FlRemoveFriend(i, friendId) ==
    /\ i \in 1..Len(fl.lists)
    /\ LET r == removeFriend(fl.lists[i], friendId)
       IN  FlStep("removeFriend", [fl.lists EXCEPT ![i] = r.list], <<>>, r.threw)

FlPlus(i, j) ==
    /\ i \in 1..Len(fl.lists) /\ j \in 1..Len(fl.lists)
    /\ LET r == ListPlus(fl.lists[i], fl.lists[j])
       IN  FlStep("+", fl.lists, IF r.threw = "" THEN <<r.list>> ELSE <<>>, r.threw)

FlPlusAssign(i, j) ==
    /\ i \in 1..Len(fl.lists) /\ j \in 1..Len(fl.lists)
    /\ FlStep("+=", [fl.lists EXCEPT ![i] = ListPlusAssign(@, fl.lists[j].friends)],
              <<>>, "")

FlMinus(i, j) ==
    /\ i \in 1..Len(fl.lists) /\ j \in 1..Len(fl.lists)
    /\ LET r == ListMinus(fl.lists[i], fl.lists[j])
       IN  FlStep("-", fl.lists, IF r.threw = "" THEN <<r.list>> ELSE <<>>, r.threw)

(* FriendList::operator= *)
FlAssign(i, j) ==
    /\ i \in 1..Len(fl.lists) /\ j \in 1..Len(fl.lists)
    /\ FlStep("=", [fl.lists EXCEPT ![i] = fl.lists[j]], <<>>, "")

FlInput(i, cap) ==
    /\ i \in 1..Len(fl.lists)
    /\ FlStep(">>", [fl.lists EXCEPT ![i] = ListInput(@, cap)], <<>>, "")

FlNext ==
    \/ \E cap \in Capacities : FlConstruct(cap)
    \/ \E i \in 1..MaxLists, f \in FriendIds : FlAddFriend(i, f)
    \/ \E i \in 1..MaxLists, f \in FriendIds : FlRemoveFriend(i, f)
    \/ \E i, j \in 1..MaxLists : FlPlus(i, j)
    \/ \E i, j \in 1..MaxLists : FlPlusAssign(i, j)
    \/ \E i, j \in 1..MaxLists : FlMinus(i, j)
    \/ \E i, j \in 1..MaxLists : FlAssign(i, j)
    \/ \E i \in 1..MaxLists, cap \in InputCapacities : FlInput(i, cap)

SpecList == FlInit /\ [][FlNext]_vars

(* C15: a FriendList never holds more friends than its capacity: after any
   sequence of addFriend, removeFriend, operator+, operator+=, operator-,
   assignment and operator>>, getSize() <= getCapacity() (and addFriend on
   a full list throws "Friend list is full" without adding). *)
C15_SizeWithinCapacity ==
    /\ \A i \in 1..Len(fl.lists) : getSize(fl.lists[i]) <= getCapacity(fl.lists[i])
    /\ \A i \in 1..Len(fl.temp) : getSize(fl.temp[i]) <= getCapacity(fl.temp[i])

(* The part of C15 that the code keeps: only operator>> takes a list from
   within its capacity to beyond it. *)
C15_BeyondCapacityOnlyByInput ==
    [][(C15_SizeWithinCapacity /\ ~C15_SizeWithinCapacity') => fl'.last.op = ">>"]_vars

(* The second half of C15 as the code keeps it: an addFriend never changes
   a list for which isFull() is true. *)
C15_FullListNotAddedTo ==
    [][\A i \in 1..Len(fl.lists) :
          (fl'.last.op = "addFriend" /\ isFull(fl.lists[i]))
              => fl'.lists[i] = fl.lists[i]]_vars

====
